---- MODULE Spec2Model ----
(***************************************************************************)
(* Model of src/index.js: an interactive REPL that collects the project's  *)
(* files, asks a remote AI for an edit, parses the reply into a file path  *)
(* and a code block, and applies / copies / cancels it on confirmation.    *)
(*                                                                         *)
(* Text is modelled as a sequence of tokens.  A token stands for one       *)
(* character class of the regular expressions of parseAIResponse: the      *)
(* label "ARCHIVO:", a fence of three backticks, a newline, a blank, a     *)
(* word character (\w) or any other printable character.                   *)
(***************************************************************************)
EXTENDS Integers, Sequences, FiniteSets, Bags, TLC

\* ------------------------------------------------------------------ bounds
MaxLen == 6
MaxReq == 2
MaxSigint == 1
MaxNodes == 3

\* ------------------------------------------------------------------ tokens
\* JavaScript null / a failed String.prototype.match.
NULL == [null |-> TRUE]

LabelToks == {"ARCHIVO:", "archivo:"}      \* the pattern has the i flag
WordToks  == {"a", "b", "hello", "bye", "text", "js"}
OtherToks == {"/", "src/a.txt", "lib/b.js", "EXPLICACION:", "..."}

IsLabel(t) == t \in LabelToks
IsNl(t)    == t = "NL"
IsSpace(t) == t \in {"SP", "NL"}
IsWord(t)  == t \in WordToks
IsFence(t) == t = "FENCE"

\* String.prototype.trim on a token sequence.
RECURSIVE TrimLeft(_)
TrimLeft(s) ==
    IF s = <<>> THEN <<>>
    ELSE IF IsSpace(Head(s)) THEN TrimLeft(Tail(s)) ELSE s

RECURSIVE TrimRight(_)
TrimRight(s) ==
    IF s = <<>> THEN <<>>
    ELSE IF IsSpace(s[Len(s)]) THEN TrimRight(SubSeq(s, 1, Len(s) - 1)) ELSE s

Trim(s) == TrimRight(TrimLeft(s))

\* ------------------------------------------------ parseAIResponse, step A
\* Number of consecutive \s tokens of r starting at index p.
RECURSIVE SpaceRun(_, _)
SpaceRun(r, p) ==
    IF p > Len(r) \/ ~IsSpace(r[p]) THEN 0 ELSE 1 + SpaceRun(r, p + 1)

\* Index of the last token of the run of non-newline tokens starting at p.
RECURSIVE LineEnd(_, _)
LineEnd(r, p) ==
    IF p + 1 > Len(r) \/ IsNl(r[p + 1]) THEN p ELSE LineEnd(r, p + 1)

\* /ARCHIVO:\s*([^\n]+)/i anchored at a label at index i: \s* is greedy and
\* gives tokens back until [^\n]+ can start; n is the number of \s tokens
\* kept.  The result is the start of the capture, or 0 when no n works.
RECURSIVE CaptureStart(_, _, _)
CaptureStart(r, i, n) ==
    IF i + n + 1 <= Len(r) /\ ~IsNl(r[i + n + 1]) THEN i + n + 1
    ELSE IF n = 0 THEN 0
    ELSE CaptureStart(r, i, n - 1)

\* Leftmost match of the label pattern from index i on: the match with its
\* capture group, or NULL.
RECURSIVE fileMatch(_, _)
fileMatch(r, i) ==
    IF i > Len(r) THEN NULL
    ELSE IF IsLabel(r[i]) /\ CaptureStart(r, i, SpaceRun(r, i + 1)) # 0
         THEN LET p == CaptureStart(r, i, SpaceRun(r, i + 1))
              IN  [group1 |-> SubSeq(r, p, LineEnd(r, p))]
         ELSE fileMatch(r, i + 1)

\* ------------------------------------------------ parseAIResponse, step B
\* Number of consecutive \w tokens of r starting at index p.
RECURSIVE WordRun(_, _)
WordRun(r, p) ==
    IF p > Len(r) \/ ~IsWord(r[p]) THEN 0 ELSE 1 + WordRun(r, p + 1)

\* Lazy ([\s\S]*?)\n```: the first j >= p with a newline at j and a fence at
\* j + 1, or 0.
RECURSIVE CloseAt(_, _)
CloseAt(r, j) ==
    IF j + 1 > Len(r) THEN 0
    ELSE IF IsNl(r[j]) /\ IsFence(r[j + 1]) THEN j
    ELSE CloseAt(r, j + 1)

\* Index after the newline that ends the opening fence at i, or 0 when the
\* fence at i is not followed by \w* and a newline.
OpenBody(r, i) ==
    LET m == i + 1 + WordRun(r, i + 1)
    IN  IF m <= Len(r) /\ IsNl(r[m]) THEN m + 1 ELSE 0

\* Leftmost match of /```[\w]*\n([\s\S]*?)\n```/ from index i on: the match
\* with its capture group, or NULL.
RECURSIVE codeMatch(_, _)
codeMatch(r, i) ==
    IF i > Len(r) THEN NULL
    ELSE IF IsFence(r[i]) /\ OpenBody(r, i) # 0 /\ CloseAt(r, OpenBody(r, i)) # 0
         THEN [group1 |-> SubSeq(r, OpenBody(r, i), CloseAt(r, OpenBody(r, i)) - 1)]
         ELSE codeMatch(r, i + 1)

\* Mutant: the missing fence is not checked.
parseAIResponse_NoFenceCheck(response) ==
    IF fileMatch(response, 1) = NULL THEN NULL
    ELSE [filePath |-> Trim(fileMatch(response, 1).group1),
          codeBlock |-> IF codeMatch(response, 1) = NULL THEN <<>>
                        ELSE codeMatch(response, 1).group1]

parseAIResponse(response) ==
    IF fileMatch(response, 1) = NULL THEN NULL
    ELSE IF codeMatch(response, 1) = NULL THEN NULL
    ELSE [filePath |-> Trim(fileMatch(response, 1).group1),
          codeBlock |-> codeMatch(response, 1).group1]

\* ----------------------------------------------------- lines read on stdin
\* String.prototype.toLowerCase, character by character.
LowerChar(c) ==
    CASE c = "E" -> "e"
      [] c = "X" -> "x"
      [] c = "S" -> "s"
      [] c = "I" -> "i"
      [] c = "C" -> "c"
      [] c = "I_ACUTE" -> "i_acute"
      [] c = "PNG" -> "png"
      [] OTHER -> c

toLowerCase(s) == [i \in 1..Len(s) |-> LowerChar(s[i])]

ExitTokens == {<<"s", "a", "l", "i", "r">>, <<"e", "x", "i", "t">>}

\* The test of the line handler on the trimmed input.
IsExitToken(userInput) == toLowerCase(userInput) \in ExitTokens

ApplyAnswers == {<<"s">>, <<"s", "i">>, <<"s", "i_acute">>}
CopyAnswers  == {<<"c">>, <<"c", "o", "p", "i", "a", "r">>}

\* Mutant: an empty answer counts as yes.
Decide_EmptyIsYes(answer) ==
    LET response == Trim(toLowerCase(answer))
    IN  IF response \in ApplyAnswers \cup {<<>>} THEN "apply"
        ELSE IF response \in CopyAnswers THEN "copy"
        ELSE "cancel"

\* The branch the confirmation callback takes on an answer.
Decide(answer) ==
    LET response == Trim(toLowerCase(answer))
    IN  IF response \in ApplyAnswers THEN "apply"
        ELSE IF response \in CopyAnswers THEN "copy"
        ELSE "cancel"

\* The lines a user types, as requests or as answers.
Lines ==
    { <<>>, <<"SP">>,
      <<"SP", "E", "x", "i", "t">>, <<"s", "a", "l", "i", "r">>,
      <<"s">>, <<"S", "I", "SP">>, <<"s", "I_ACUTE">>,
      <<"c">>, <<"C", "o", "p", "i", "a", "r">>,
      <<"n">>, <<"f", "i", "x">> }

\* ---------------------------------------------------------- the file system
NoFile == [nofile |-> TRUE]
NoClip == [noclip |-> TRUE]

\* Index of the last "/" of a path, 0 when it has none.
RECURSIVE LastSlash(_, _)
LastSlash(p, i) ==
    IF i = 0 THEN 0 ELSE IF p[i] = "/" THEN i ELSE LastSlash(p, i - 1)

\* path.dirname
dirname(p) ==
    LET k == LastSlash(p, Len(p))
    IN  IF k = 0 THEN <<".">>
        ELSE IF k = 1 THEN <<"/">>
        ELSE SubSeq(p, 1, k - 1)

\* The directories fs.mkdir(dir, {recursive: true}) makes sure exist.
mkdir(dir) ==
    {dir} \cup {SubSeq(dir, 1, i - 1) : i \in {j \in 2..Len(dir) : dir[j] = "/"}}

\* Mutant: the write appends to what the file holds.
writeFile_Append(disk, filePath, codeBlock) ==
    [disk EXCEPT ![filePath] = IF @ = NoFile THEN [data |-> codeBlock]
                               ELSE [data |-> @.data \o codeBlock]]

\* fs.writeFile(filePath, codeBlock, 'utf8') on the files of the disk.
writeFile(disk, filePath, codeBlock) ==
    [disk EXCEPT ![filePath] = [data |-> codeBlock]]

\* -------------------------------------------------- replies of the remote AI
ReplySamples ==
    { <<"ARCHIVO:", "SP", "src", "/", "lib", "/", "a.txt", "NL",
        "FENCE", "text", "NL", "hello", "NL", "FENCE", "NL",
        "EXPLICACION:", "SP", "...">>,
      <<"FENCE", "js", "NL", "hello", "NL", "FENCE", "NL", "EXPLICACION:">>,
      <<"ARCHIVO:", "SP", "b.js", "NL", "hello">> }

\* The files of the disk: the targets of the replies and one more file.
FilePaths ==
    {parseAIResponse(s).filePath : s \in {t \in ReplySamples : parseAIResponse(t) # NULL}}
        \cup {<<"b.js">>}

\* -------------------------------------------------------- getProjectContext
\* A file or directory name is a sequence of tokens with "." as a token of
\* its own: "a.txt" is <<"a", ".", "txt">>.
ignoredItems ==
    { <<"node_modules">>, <<".", "git">>, <<".", "vscode">>, <<".", "DS_Store">>,
      <<"package-lock", ".", "json">>, <<"yarn", ".", "lock">>,
      <<"index", ".", "js">>, <<".", "env">>, <<"dist">>, <<"build">>,
      <<"coverage">> }

ignoredExtensions ==
    { <<".", e>> : e \in {"exe", "dll", "so", "dylib", "jpg", "jpeg", "png", "gif",
                         "bmp", "ico", "mp3", "mp4", "avi", "mov", "zip", "rar",
                         "tar", "gz", "pdf", "doc", "docx"} }

\* Index of the last "." of a name, 0 when it has none.
RECURSIVE LastDot(_, _)
LastDot(name, i) ==
    IF i = 0 THEN 0 ELSE IF name[i] = "." THEN i ELSE LastDot(name, i - 1)

\* path.extname: from the last "." on; empty when there is none or when the
\* only one starts the name.
extname(name) ==
    LET k == LastDot(name, Len(name))
    IN  IF k <= 1 THEN <<>> ELSE SubSeq(name, k, Len(name))

\* One delimited file of the context: the INICIO line, the raw text, the FIN
\* line.
Chunk(relativePath, content) ==
    [inicio |-> relativePath, text |-> content, fin |-> relativePath]

\* Mutant: an unreadable file ends the walk of its directory.
RECURSIVE getProjectContext_AbortOnUnreadable(_, _)
getProjectContext_AbortOnUnreadable(items, rel) ==
    IF items = <<>> THEN <<>>
    ELSE LET item == Head(items)
             relativePath == Append(rel, item.name)
             rest == getProjectContext_AbortOnUnreadable(Tail(items), rel)
         IN  IF item.name \in ignoredItems THEN rest
             ELSE IF item.kind = "noaccess" THEN rest
             ELSE IF item.kind = "dir"
                  THEN getProjectContext_AbortOnUnreadable(item.children, relativePath)
                       \o rest
             ELSE IF item.kind = "nolist" THEN rest
             ELSE IF toLowerCase(extname(item.name)) \in ignoredExtensions THEN rest
             ELSE IF item.kind = "unreadable" THEN <<>>
             ELSE <<Chunk(relativePath, item.content)>> \o rest

\* The loop of getProjectContext over the listing items of the directory
\* whose path relative to the base is rel.  An entry is [name, kind, content,
\* children]; kind is "file", "unreadable" (readFile throws), "noaccess"
\* (stat throws), "dir" or "nolist" (a directory whose readdir throws, so the
\* recursive call returns the empty string).
RECURSIVE getProjectContext(_, _)
getProjectContext(items, rel) ==
    IF items = <<>> THEN <<>>
    ELSE LET item == Head(items)
             relativePath == Append(rel, item.name)
             rest == getProjectContext(Tail(items), rel)
         IN  IF item.name \in ignoredItems THEN rest
             ELSE IF item.kind = "noaccess" THEN rest
             ELSE IF item.kind = "dir"
                  THEN getProjectContext(item.children, relativePath) \o rest
             ELSE IF item.kind = "nolist" THEN rest
             ELSE IF toLowerCase(extname(item.name)) \in ignoredExtensions THEN rest
             ELSE IF item.kind = "unreadable" THEN rest
             ELSE <<Chunk(relativePath, item.content)>> \o rest

\* --------------------------------------------------------------- variables
VARIABLES
    setup,        \* the await initAIWorker / main is at, "ready" once the REPL runs
    workerBrowser,\* initAIWorker's local browser: TRUE once puppeteer.launch returned
    browser,      \* main's variable browser: "undefined" or "handle"
    closeCalls,   \* number of browser.close() calls made so far
    proc,         \* "running" or "exited"
    exitCode,     \* the exit code, -1 while running
    exitCause,    \* what ended the process
    rlCloseCause, \* why rl is closed: "none" (open), "token" or "eof"
    closePending, \* the 'close' handler awaits browser.close()
    sigints,      \* number of SIGINTs delivered
    sigPending,   \* number of SIGINT handlers awaiting browser.close()
    req,          \* the bag of running invocations of the 'line' handler
    files,        \* the disk: path -> content
    dirs,         \* the directories that exist
    clipboard,    \* the system clipboard
    lastLog,      \* the message that ended the last turn (or the program)
    prompted,     \* the rl prompt is the last thing written to the terminal
    pReply, pResult, pDone,  \* a call of parseAIResponse on its own
    cTree, cContext, cDone   \* a call of getProjectContext on its own

vars == <<setup, workerBrowser, browser, closeCalls, proc, exitCode, exitCause,
          rlCloseCause, closePending, sigints, sigPending,
          req, files, dirs, clipboard, lastLog, prompted, pReply, pResult, pDone,
          cTree, cContext, cDone>>

parseVars == <<pReply, pResult, pDone, cTree, cContext, cDone>>
procVars  == <<setup, workerBrowser, browser, closeCalls, proc, exitCode, exitCause,
               rlCloseCause, closePending, sigints, sigPending>>
diskVars  == <<files, dirs, clipboard>>

rlClosed   == rlCloseCause # "none"
stdinEnded == rlCloseCause = "eof"

\* A console message; the parse failure carries the reply it is about.
Log(msg) == [msg |-> msg, reply |-> <<>>]

\* An invocation of the line handler: where it awaits, and its locals.
NewReq == [pc |-> "collecting", aiResponse |-> <<>>, parsed |-> NULL,
           response |-> <<>>]

\* ------------------------------------------- the parser on bounded replies
ParseAlphabet == {"ARCHIVO:", "SP", "NL", "FENCE", "a", "/"}

Replies == UNION {[1..n -> ParseAlphabet] : n \in 0..MaxLen}

ReplIdle ==
    /\ setup = "launch"
    /\ workerBrowser = FALSE
    /\ browser = "undefined"
    /\ closeCalls = 0
    /\ proc = "running"
    /\ exitCode = -1
    /\ exitCause = "none"
    /\ rlCloseCause = "none"
    /\ closePending = FALSE
    /\ sigints = 0
    /\ sigPending = 0
    /\ req = EmptyBag
    /\ clipboard = NoClip
    /\ lastLog = Log("none")
    /\ prompted = FALSE

InitParse ==
    /\ ReplIdle
    /\ files = [p \in FilePaths |-> NoFile]
    /\ dirs = {<<".">>}
    /\ pReply \in Replies
    /\ pResult = NULL
    /\ pDone = FALSE
    /\ cTree = <<>>
    /\ cContext = <<>>
    /\ cDone = TRUE

CallParse ==
    /\ ~pDone
    /\ pResult' = parseAIResponse(pReply)
    /\ pDone' = TRUE
    /\ UNCHANGED <<pReply, cTree, cContext, cDone, procVars, req, diskVars,
                   lastLog, prompted>>

SpecParse == InitParse /\ [][CallParse]_vars

\* -------------------------------------- the collector on bounded trees
CtxNames == { <<"a", ".", "txt">>, <<"b", ".", "PNG">>, <<"dist">>, <<"src">> }

FileText == <<"text">>

Leaf(name, kind) ==
    [name |-> name, kind |-> kind,
     content |-> IF kind = "file" THEN FileText ELSE <<>>, children |-> <<>>]

LeafKinds == {"file", "unreadable", "noaccess", "nolist"}

\* The paths of the directories of a tree that can be listed, the root's
\* (the empty path) included.
RECURSIVE DirPaths(_, _)
DirPaths(items, rel) ==
    {rel} \cup UNION { IF items[i].kind = "dir"
                       THEN DirPaths(items[i].children, Append(rel, items[i].name))
                       ELSE {}
                       : i \in 1..Len(items) }

\* The listing of the directory at path dir.
RECURSIVE ListingAt(_, _)
ListingAt(items, dir) ==
    IF dir = <<>> THEN items
    ELSE LET i == CHOOSE i \in 1..Len(items) : items[i].name = Head(dir)
         IN  ListingAt(items[i].children, Tail(dir))

\* The tree with entry e added at the end of the listing of dir.
RECURSIVE AddAt(_, _, _)
AddAt(items, dir, e) ==
    IF dir = <<>> THEN Append(items, e)
    ELSE [i \in 1..Len(items) |->
            IF items[i].name = Head(dir)
            THEN [items[i] EXCEPT !.children = AddAt(@, Tail(dir), e)]
            ELSE items[i]]

\* Number of entries of a tree, subdirectories' included.
RECURSIVE Size(_)
Size(items) ==
    IF items = <<>> THEN 0
    ELSE 1 + Size(Head(items).children) + Size(Tail(items))

InitContext ==
    /\ ReplIdle
    /\ files = [p \in FilePaths |-> NoFile]
    /\ dirs = {<<".">>}
    /\ pReply = <<>>
    /\ pResult = NULL
    /\ pDone = TRUE
    /\ cTree = <<>>
    /\ cContext = <<>>
    /\ cDone = FALSE

\* The tree the collector will walk gets one more entry.
GrowTree ==
    /\ ~cDone /\ Size(cTree) < MaxNodes
    /\ \E dir \in DirPaths(cTree, <<>>), name \in CtxNames,
          kind \in LeafKinds \cup {"dir"} :
           /\ \A i \in 1..Len(ListingAt(cTree, dir)) :
                  ListingAt(cTree, dir)[i].name # name
           /\ cTree' = AddAt(cTree, dir, Leaf(name, kind))
    /\ UNCHANGED <<cContext, cDone, pReply, pResult, pDone, procVars, req,
                   diskVars, lastLog, prompted>>

CallContext ==
    /\ ~cDone
    /\ cContext' = getProjectContext(cTree, <<>>)
    /\ cDone' = TRUE
    /\ UNCHANGED <<cTree, pReply, pResult, pDone, procVars, req, diskVars,
                   lastLog, prompted>>

SpecContext == InitContext /\ [][GrowTree \/ CallContext]_vars

\* ------------------------------------------------------------- the program
OldContent == <<"old">>

Init ==
    /\ ReplIdle
    /\ files \in {f \in [FilePaths -> {NoFile, [data |-> OldContent]}] :
                    f[<<"b.js">>] # NoFile}
    /\ dirs = {<<".">>} \cup
              UNION {mkdir(dirname(p)) : p \in {q \in FilePaths : files[q] # NoFile}}
    /\ pReply = <<>>
    /\ pResult = NULL
    /\ pDone = TRUE
    /\ cTree = <<>>
    /\ cContext = <<>>
    /\ cDone = TRUE

\* process.exit(code)
Exit(code, cause) ==
    /\ proc' = "exited"
    /\ exitCode' = code
    /\ exitCause' = cause

\* initAIWorker: puppeteer.launch resolved.
LaunchOk ==
    /\ proc = "running" /\ setup = "launch"
    /\ setup' = "newPage"
    /\ workerBrowser' = TRUE
    /\ UNCHANGED <<browser, closeCalls, proc, exitCode, exitCause, rlCloseCause,
                   closePending, sigints, sigPending, req, diskVars,
                   lastLog, prompted, parseVars>>

\* initAIWorker: browser.newPage resolved.
NewPageOk ==
    /\ proc = "running" /\ setup = "newPage"
    /\ setup' = "setContent"
    /\ UNCHANGED <<workerBrowser, browser, closeCalls, proc, exitCode, exitCause,
                   rlCloseCause, closePending, sigints, sigPending,
                   req, diskVars, lastLog, prompted, parseVars>>

\* initAIWorker: page.setContent resolved.
SetContentOk ==
    /\ proc = "running" /\ setup = "setContent"
    /\ setup' = "waitForFunction"
    /\ UNCHANGED <<workerBrowser, browser, closeCalls, proc, exitCode, exitCause,
                   rlCloseCause, closePending, sigints, sigPending,
                   req, diskVars, lastLog, prompted, parseVars>>

\* initAIWorker returns; main stores the handle, creates rl, prompts and
\* registers the 'line', 'close' and SIGINT handlers.
WaitForFunctionOk ==
    /\ proc = "running" /\ setup = "waitForFunction"
    /\ setup' = "ready"
    /\ browser' = "handle"
    /\ prompted' = TRUE
    /\ UNCHANGED <<lastLog, workerBrowser, closeCalls, proc, exitCode, exitCause,
                   rlCloseCause, closePending, sigints, sigPending,
                   req, diskVars, parseVars>>

\* Any await of initAIWorker rejects: its catch rethrows, and the catch of
\* main closes the browser only if main's own variable holds it.
SetupFail ==
    /\ proc = "running"
    /\ setup \in {"launch", "newPage", "setContent", "waitForFunction"}
    /\ closeCalls' = IF browser # "undefined" THEN closeCalls + 1 ELSE closeCalls
    /\ lastLog' = Log("fatal")
    /\ prompted' = FALSE
    /\ Exit(1, "setup")
    /\ UNCHANGED <<setup, workerBrowser, browser, rlCloseCause, closePending,
                   sigints, sigPending, req, diskVars, parseVars>>

\* The 'close' handler of rl, run synchronously by what closes rl.
RlClose(cause) ==
    /\ rlCloseCause' = cause
    /\ IF browser # "undefined"
       THEN /\ closeCalls' = closeCalls + 1
            /\ closePending' = TRUE
            /\ UNCHANGED <<proc, exitCode, exitCause>>
       ELSE /\ Exit(0, "close")
            /\ UNCHANGED <<closeCalls, closePending>>

\* The confirmation callback up to its first await; the cancel branch has
\* none and ends the turn at once.
Answer(q, answer) ==
    LET branch == Decide(answer)
    IN  [q EXCEPT !.response = Trim(toLowerCase(answer)),
                  !.pc = CASE branch = "apply" -> "mkdir"
                           [] branch = "copy" -> "copy"
                           [] OTHER -> "done"]

Confirming == {q \in BagToSet(req) : q.pc = "confirm"}

\* req with q replaced by q2 / with q removed.
Replace(q, q2) == (req (-) SetToBag({q})) (+) SetToBag({q2})
Remove(q)      == req (-) SetToBag({q})

\* The bag req after every pending question took the line as its answer.
AnswerAll(answer) ==
    LET kept == {q \in BagToSet(req) : q.pc # "confirm"}
        rest == [q \in kept |-> req[q]]
        step(q) == Answer(q, answer)
    IN  IF Decide(answer) = "cancel" THEN rest
        ELSE rest (+) BagOfAll(step, [q \in Confirming |-> req[q]])

\* A line arrives on stdin.  rl and every open confirmRl read the same
\* stream: rl's 'line' handler runs on it, and each pending question takes it
\* as its answer.
Line(input) ==
    LET userInput == Trim(input)
        closes    == ~rlClosed /\ IsExitToken(userInput)
        starts    == ~rlClosed /\ ~IsExitToken(userInput) /\ userInput # <<>>
        answers   == Confirming # {}
    IN  /\ proc = "running" /\ setup = "ready" /\ ~stdinEnded
        /\ ~rlClosed \/ answers
        /\ starts => BagCardinality(req) < MaxReq
        /\ req' = IF starts THEN AnswerAll(input) (+) SetToBag({NewReq})
                  ELSE AnswerAll(input)
        /\ IF closes THEN RlClose("token")
           ELSE UNCHANGED <<rlCloseCause, closeCalls, closePending, proc,
                            exitCode, exitCause>>
        /\ lastLog' = IF answers /\ Decide(input) = "cancel" THEN Log("cancelled")
                      ELSE lastLog
        /\ prompted' = IF answers /\ Decide(input) = "cancel" THEN TRUE
                       ELSE IF closes \/ starts THEN FALSE
                       ELSE IF ~rlClosed THEN TRUE
                       ELSE prompted
        /\ UNCHANGED <<setup, workerBrowser, browser, sigints, sigPending, diskVars, parseVars>>

\* stdin ends: readline closes rl, which emits 'close'.
Eof ==
    /\ proc = "running" /\ setup = "ready" /\ ~rlClosed
    /\ RlClose("eof")
    /\ prompted' = FALSE
    /\ UNCHANGED lastLog
    /\ UNCHANGED <<setup, workerBrowser, browser, sigints, sigPending, req,
                   diskVars, parseVars>>

\* The 'close' handler resumes after browser.close().
CloseExit ==
    /\ proc = "running" /\ closePending
    /\ Exit(0, "close")
    /\ prompted' = FALSE
    /\ UNCHANGED <<lastLog, setup, workerBrowser, browser, closeCalls, rlCloseCause,
                   closePending, sigints, sigPending, req, diskVars,
                   parseVars>>

\* SIGINT is delivered.  Before main registers its handler the runtime's
\* default applies: the process ends with 128 + 2.
Sigint ==
    /\ proc = "running" /\ sigints < MaxSigint
    /\ sigints' = sigints + 1
    /\ IF setup = "ready"
       THEN /\ prompted' = FALSE
            /\ IF browser # "undefined"
               THEN /\ closeCalls' = closeCalls + 1
                    /\ sigPending' = sigPending + 1
                    /\ UNCHANGED <<proc, exitCode, exitCause>>
               ELSE /\ Exit(0, "sigint")
                    /\ UNCHANGED <<closeCalls, sigPending>>
       ELSE /\ Exit(128 + 2, "signal")
            /\ UNCHANGED <<closeCalls, sigPending, prompted>>
    /\ UNCHANGED <<lastLog, setup, workerBrowser, browser, rlCloseCause, closePending, req, diskVars, parseVars>>

\* A SIGINT handler resumes after browser.close().
SigintExit ==
    /\ proc = "running" /\ sigPending > 0
    /\ Exit(0, "sigint")
    /\ UNCHANGED <<setup, workerBrowser, browser, closeCalls, rlCloseCause,
                   closePending, sigints, sigPending, req, diskVars,
                   lastLog, prompted, parseVars>>

\* ------------------------------------------ one request, await by await
\* The end of a turn: a message, then rl.prompt().
EndTurn(q, msg) ==
    /\ req' = Remove(q)
    /\ lastLog' = msg
    /\ prompted' = TRUE

\* getProjectContext resolved (it catches its own errors); askAI is called.
CollectDone(q) ==
    /\ proc = "running" /\ q.pc = "collecting"
    /\ req' = Replace(q, [q EXCEPT !.pc = "querying"])
    /\ prompted' = FALSE
    /\ UNCHANGED <<procVars, diskVars, lastLog, parseVars>>

\* askAI resolved with a reply, which is parsed.  An absent result ends the
\* turn; otherwise the old content is read for the preview (an await that
\* changes nothing) and the confirmation question is asked on a second
\* interface.
AskOk(q, aiResponse) ==
    LET parsedResponse == parseAIResponse(aiResponse)
    IN  /\ proc = "running" /\ q.pc = "querying"
        /\ IF parsedResponse = NULL
           THEN EndTurn(q, [msg |-> "parsefail", reply |-> aiResponse])
           ELSE /\ req' = Replace(q, [q EXCEPT !.pc = "confirm",
                                               !.aiResponse = aiResponse,
                                               !.parsed = parsedResponse])
                /\ prompted' = FALSE
                /\ UNCHANGED lastLog
        /\ UNCHANGED <<procVars, diskVars, parseVars>>

\* Mutant: the rejection of askAI is not caught and ends the process.
AskFail_Crash(q) ==
    /\ proc = "running" /\ q.pc = "querying"
    /\ Exit(1, "unhandled")
    /\ UNCHANGED <<setup, workerBrowser, browser, closeCalls, rlCloseCause,
                   closePending, sigints, sigPending, req, diskVars, lastLog,
                   prompted, parseVars>>

\* askAI rejected: the catch of the line handler logs and prompts.
AskFail(q) ==
    /\ proc = "running" /\ q.pc = "querying"
    /\ EndTurn(q, Log("error"))
    /\ UNCHANGED <<procVars, diskVars, parseVars>>

\* fs.mkdir(dir, {recursive: true}) resolved; fs.writeFile is called.
MkdirOk(q) ==
    /\ proc = "running" /\ q.pc = "mkdir"
    /\ dirs' = dirs \cup mkdir(dirname(q.parsed.filePath))
    /\ req' = Replace(q, [q EXCEPT !.pc = "write"])
    /\ UNCHANGED <<procVars, files, clipboard, lastLog, prompted, parseVars>>

\* fs.mkdir rejected: the inner catch logs; confirmRl.close(); rl.prompt().
MkdirFail(q) ==
    /\ proc = "running" /\ q.pc = "mkdir"
    /\ EndTurn(q, Log("writeerror"))
    /\ UNCHANGED <<procVars, diskVars, parseVars>>

\* fs.writeFile resolved; confirmRl.close(); rl.prompt().
WriteOk(q) ==
    /\ proc = "running" /\ q.pc = "write"
    /\ files' = writeFile(files, q.parsed.filePath, q.parsed.codeBlock)
    /\ EndTurn(q, Log("applied"))
    /\ UNCHANGED <<procVars, dirs, clipboard, parseVars>>

\* fs.writeFile rejected: the inner catch logs; confirmRl.close(); rl.prompt().
WriteFail(q) ==
    /\ proc = "running" /\ q.pc = "write"
    /\ EndTurn(q, Log("writeerror"))
    /\ UNCHANGED <<procVars, diskVars, parseVars>>

ClipUtils == {"pbcopy", "xclip", "none"}

\* copyToClipboard resolved: the text went to pbcopy, to xclip, or nowhere.
CopyDone(q, util) ==
    /\ proc = "running" /\ q.pc = "copy"
    /\ clipboard' = IF util = "none" THEN clipboard
                    ELSE [data |-> q.parsed.codeBlock]
    /\ EndTurn(q, IF util = "none" THEN Log("notcopied") ELSE Log("copied"))
    /\ UNCHANGED <<procVars, files, dirs, parseVars>>

Next ==
    \/ LaunchOk
    \/ NewPageOk
    \/ SetContentOk
    \/ WaitForFunctionOk
    \/ SetupFail
    \/ \E input \in Lines : Line(input)
    \/ Eof
    \/ CloseExit
    \/ Sigint
    \/ SigintExit
    \/ \E q \in BagToSet(req) : CollectDone(q)
    \/ \E q \in BagToSet(req) : \E aiResponse \in ReplySamples : AskOk(q, aiResponse)
    \/ \E q \in BagToSet(req) : AskFail(q)
    \/ \E q \in BagToSet(req) : MkdirOk(q)
    \/ \E q \in BagToSet(req) : MkdirFail(q)
    \/ \E q \in BagToSet(req) : WriteOk(q)
    \/ \E q \in BagToSet(req) : WriteFail(q)
    \/ \E q \in BagToSet(req) : \E util \in ClipUtils : CopyDone(q, util)

Spec == Init /\ [][Next]_vars

\* =================================================================== claims
\* ---------------------------------------------- vocabulary of the claims
\* The reply has a label line.
HasLabelLine(r) == \E i \in 1..Len(r) : IsLabel(r[i])

\* The rest of the line after the label at i.
LabelRemainder(r, i) ==
    LET e == CHOOSE e \in i..Len(r) :
                 /\ \A k \in (i + 1)..e : ~IsNl(r[k])
                 /\ e = Len(r) \/ IsNl(r[e + 1])
    IN  SubSeq(r, i + 1, e)

\* The fenced blocks of a reply: <<i, m, j>> with the opening fence at i, an
\* optional language tag, the newline at m, the content, the newline at j
\* and the closing fence at j + 1.
FencedBlocks(r) ==
    LET opens(i)  == {m \in (i + 1)..Len(r) :
                        IsNl(r[m]) /\ \A k \in (i + 1)..(m - 1) : IsWord(r[k])}
        closes(m) == {j \in (m + 1)..(Len(r) - 1) : IsNl(r[j]) /\ IsFence(r[j + 1])}
    IN  UNION { UNION { {<<i, m, j>> : j \in closes(m)} : m \in opens(i) }
                : i \in {k \in 1..Len(r) : IsFence(r[k])} }

HasFencedBlock(r) == FencedBlocks(r) # {}

\* The interior of the first fenced block.
FirstInterior(r) ==
    LET b == CHOOSE b \in FencedBlocks(r) :
                 \A c \in FencedBlocks(r) :
                     b[1] < c[1] \/ (b[1] = c[1] /\ b[3] <= c[3])
    IN  SubSeq(r, b[2] + 1, b[3] - 1)

\* The requests past the parser.
PastParse == {q \in BagToSet(req) : q.pc \in {"confirm", "mkdir", "write", "copy"}}

\* Every entry of a tree with its path; blocked tells whether a directory
\* above it has a name of the ignore list.
RECURSIVE NodesOf(_, _, _)
NodesOf(items, rel, blocked) ==
    UNION { {[path |-> Append(rel, items[i].name), name |-> items[i].name,
              kind |-> items[i].kind, content |-> items[i].content,
              blocked |-> blocked]}
            \cup NodesOf(items[i].children, Append(rel, items[i].name),
                         blocked \/ items[i].name \in ignoredItems)
            : i \in 1..Len(items) }

OwnIgnored(n) ==
    n.name \in ignoredItems \/ toLowerCase(extname(n.name)) \in ignoredExtensions

\* The context holds the file of node n, delimited, once.
Holds(ctx, n) ==
    Cardinality({i \in 1..Len(ctx) : ctx[i] = Chunk(n.path, n.content)}) = 1

\* No chunk of the context is of an ignored, unreadable or missing file.
OnlyWanted(ctx, tree) ==
    \A i \in 1..Len(ctx) :
        \E n \in NodesOf(tree, <<>>, FALSE) :
            /\ ctx[i] = Chunk(n.path, n.content)
            /\ n.kind = "file" /\ ~OwnIgnored(n)

\* ----------------------------------------------------------------- C1
\* C1 (as claimed): at most one request is being processed at any time; a
\* line is dispatched as a new request only when no request is in progress.
C1_OneRequestAtATime == BagCardinality(req) <= 1

\* ----------------------------------------------------------------- C2
\* C2 (as claimed): after an exit token the session handle is closed exactly
\* once over the whole run and the process exits with code 0.
C2_ExitClosesOnce ==
    (rlCloseCause = "token" /\ proc = "exited") => (closeCalls = 1 /\ exitCode = 0)

\* ----------------------------------------------------------------- C3
\* C3: a reply that lacks the label line or a fenced block never gets past
\* the parser, and the step that receives it ends the turn: the failure is
\* reported, the prompt is shown again, no confirmation is opened, the
\* disk and the clipboard are untouched and the process keeps running.
C3_NoLackingReplyPastParse ==
    \A q \in PastParse : HasLabelLine(q.aiResponse) /\ HasFencedBlock(q.aiResponse)

C3_AskStep ==
    \A q \in BagToSet(req) :
        (q.pc = "querying" /\ CopiesIn(q, req') < CopiesIn(q, req)) =>
            \/ \E q2 \in BagToSet(req') :
                   /\ q2.pc = "confirm"
                   /\ HasLabelLine(q2.aiResponse) /\ HasFencedBlock(q2.aiResponse)
                   /\ req' = Replace(q, q2)
            \/ /\ req' = Remove(q)
               /\ lastLog'.msg \in {"parsefail", "error"}
               /\ lastLog'.msg = "parsefail" =>
                      ~HasLabelLine(lastLog'.reply) \/ ~HasFencedBlock(lastLog'.reply)
               /\ prompted'
               /\ files' = files /\ dirs' = dirs /\ clipboard' = clipboard
               /\ proc' = "running"

C3_ParseFailureRecovers == [](C3_NoLackingReplyPastParse) /\ [][C3_AskStep]_vars

\* C3 witness: a reply without a fenced block was reported and the REPL
\* prompts again, still running.
C3_Witness ==
    /\ lastLog.msg = "parsefail"
    /\ HasLabelLine(lastLog.reply) /\ ~HasFencedBlock(lastLog.reply)
    /\ prompted /\ proc = "running"

\* C3, the parser alone: under SpecParse, on every bounded reply, a reply
\* that lacks the label line or a fenced block gives an absent result.
C3_ParserAbsent ==
    (pDone /\ (~HasLabelLine(pReply) \/ ~HasFencedBlock(pReply))) => pResult = NULL

\* ----------------------------------------------------------------- C4
\* C4: a request is in the apply branch only on an answer s / si / sí and in
\* the copy branch only on c / copiar; the disk changes only by the write of
\* a request in the apply branch, the clipboard only by a request in the
\* copy branch; and whenever a request past the confirmation ends, the
\* prompt is shown again.
C4_Branches ==
    \A q \in BagToSet(req) :
        /\ q.pc \in {"mkdir", "write"} => q.response \in ApplyAnswers
        /\ q.pc = "copy" => q.response \in CopyAnswers

C4_Step ==
    /\ files' # files =>
           \E q \in BagToSet(req) :
               q.pc = "write" /\ q.response \in ApplyAnswers /\ req' = Remove(q)
    /\ clipboard' # clipboard =>
           \E q \in BagToSet(req) :
               q.pc = "copy" /\ q.response \in CopyAnswers /\ req' = Remove(q)
    /\ \A q \in PastParse : CopiesIn(q, req') < CopiesIn(q, req) =>
           \/ \E q2 \in BagToSet(req') :
                  q2.pc \in {"mkdir", "write", "copy"} /\ CopiesIn(q2, req') > CopiesIn(q2, req)
           \/ prompted'

C4_OnlyOnConfirmation == [](C4_Branches) /\ [][C4_Step]_vars

\* C4 witness: an answer other than yes or copy ended a turn: nothing was
\* written or copied and the prompt is back.
C4_Witness ==
    /\ lastLog.msg = "cancelled" /\ prompted
    /\ clipboard = NoClip
    /\ \A p \in FilePaths : files[p] \in {NoFile, [data |-> OldContent]}

\* ----------------------------------------------------------------- C5
\* C5 (as claimed): for a reply with a label line and a fenced block the
\* parser returns the trimmed remainder of a label line as filePath and the
\* interior of the first fenced block as codeBlock.
C5_ParserExtracts ==
    (pDone /\ HasLabelLine(pReply) /\ HasFencedBlock(pReply)) =>
        /\ pResult # NULL
        /\ \E i \in {k \in 1..Len(pReply) : IsLabel(pReply[k])} :
               pResult.filePath = Trim(LabelRemainder(pReply, i))
        /\ pResult.codeBlock = FirstInterior(pReply)

\* ----------------------------------------------------------------- C6
\* The causes the claim lists for the end of the process.
C6_ListedCause ==
    \/ exitCause = "setup"
    \/ exitCause \in {"sigint", "signal"}
    \/ exitCause = "close" /\ rlCloseCause = "token"

\* A request that leaves an await either goes on or ends its turn with a
\* message and the prompt; the disk changes only by a write that succeeded,
\* and the process is running afterwards.
C6_Step ==
    \A q \in BagToSet(req) :
        (q.pc \in {"querying", "mkdir", "write"} /\ CopiesIn(q, req') < CopiesIn(q, req)) =>
            /\ proc' = "running"
            /\ \/ \E q2 \in BagToSet(req') : req' = Replace(q, q2) /\ files' = files
               \/ /\ req' = Remove(q)
                  /\ lastLog'.msg \in {"parsefail", "error", "writeerror"}
                  /\ files' = files
                  /\ prompted'
               \/ /\ req' = Remove(q)
                  /\ q.pc = "write" /\ lastLog'.msg = "applied"
                  /\ prompted'

C7_InterruptShutsDown ==
    /\ []((sigints > 0 /\ proc = "exited") => (exitCode = 0 /\ closeCalls >= 1))
    /\ [][sigints > 0 => files' = files]_vars

\* ----------------------------------------------------------------- C8
\* C8 (as claimed): the context holds no ignored file and holds every
\* readable file whose own name and extension are not ignored.
C8_Original ==
    cDone =>
        /\ OnlyWanted(cContext, cTree)
        /\ \A n \in NodesOf(cTree, <<>>, FALSE) :
               (n.kind = "file" /\ ~OwnIgnored(n)) => Holds(cContext, n)

\* C8 (amended): the context holds no ignored file and holds every readable
\* file whose own name and extension are not ignored and that lies under no
\* directory whose name is on the ignore list; unreadable and inaccessible
\* entries do not stop the walk.
C8_CollectorComplete ==
    cDone =>
        /\ OnlyWanted(cContext, cTree)
        /\ \A n \in NodesOf(cTree, <<>>, FALSE) :
               (n.kind = "file" /\ ~OwnIgnored(n) /\ ~n.blocked) => Holds(cContext, n)

\* C8 witness: a walk that met an entry it had to skip (unreadable,
\* inaccessible or ignored) and still collected a file below the root.
C8_Witness ==
    /\ cDone
    /\ \E i \in 1..Len(cContext) : Len(cContext[i].inicio) >= 2
    /\ \E i \in 1..Len(cTree) :
           cTree[i].kind \in {"unreadable", "noaccess", "nolist"}
           \/ cTree[i].name \in ignoredItems

\* ----------------------------------------------------------------- C9
\* C9 (as claimed): a setup failure ends the process with code 1 before the
\* REPL is entered, and a browser that was launched has been closed.
C9_SetupFailureTearsDown ==
    (proc = "exited" /\ exitCause = "setup") =>
        /\ exitCode = 1
        /\ setup # "ready"
        /\ workerBrowser => closeCalls >= 1

\* ---------------------------------------------------------------- C10
\* C10: the write of a confirmed turn leaves exactly the code block in the
\* target, whatever it held, and changes no other file; the ancestors of the
\* target exist when the write is made.
C10_DirsReady ==
    \A q \in BagToSet(req) :
        q.pc = "write" => mkdir(dirname(q.parsed.filePath)) \subseteq dirs

C10_Step ==
    /\ \A q \in BagToSet(req) :
           (q.pc = "write" /\ CopiesIn(q, req') < CopiesIn(q, req)
                /\ lastLog'.msg = "applied") =>
               files' = [files EXCEPT ![q.parsed.filePath] = [data |-> q.parsed.codeBlock]]
    /\ files' # files =>
           \E q \in BagToSet(req) :
               /\ q.pc = "write"
               /\ Cardinality({p \in FilePaths : files'[p] # files[p]}) = 1
               /\ files'[q.parsed.filePath] = [data |-> q.parsed.codeBlock]

C10_PureOverwrite == [](C10_DirsReady) /\ [][C10_Step]_vars

\* C10 witness: an edit was applied over a disk that has its directories.
C10_Witness ==
    /\ lastLog.msg = "applied"
    /\ \E p \in FilePaths :
           /\ Len(p) > 1
           /\ files[p] \notin {NoFile, [data |-> OldContent]}
           /\ mkdir(dirname(p)) \subseteq dirs

====
